---- MODULE Spec2Model ----
(***************************************************************************)
(* A state-machine model of src/kizen-controller.py: the KizenClient       *)
(* methods check_connection, _get_s3_signature, _get_s3_bucket,            *)
(* upload_file and update_phone_call, and the __main__ script that drives  *)
(* them.  Every HTTP request the program sends is appended to `calls`      *)
(* together with the response the environment chose for it.                *)
(*                                                                         *)
(* Strings built by f-strings are modelled as sequences of tokens, so that *)
(* concatenation is sequence concatenation; timestamps are seconds since   *)
(* the epoch and strftime splits them into day / hour / minute / second.   *)
(***************************************************************************)
EXTENDS Integers, Sequences, FiniteSets, TLC

VARIABLES
    entry,           \* "main": the __main__ script; "call": upload_file called directly
    file_name,       \* os.path.basename(file_path), split at "."
    environment,     \* the environment tag passed to upload_file
    access_key,      \* the access-key id passed to upload_file
    jsonErrorIsRequestException, \* the installed requests raises a RequestException from .json()
    fileExists,      \* the file system: file_path exists
    fsChanges,       \* how often the file system changed under the program
    clock,           \* the UTC wall clock, in seconds
    pc,              \* the program's position
    calls,           \* the HTTP requests sent so far, each with its response
    connected,       \* what check_connection returned
    sig,             \* the locals of _get_s3_signature
    signature_data,  \* what _get_s3_signature returned
    fileOpen,        \* the handle f of `with open(file_path, 'rb') as f` is open
    s3_response,     \* the storage response
    success_response,\* the registration response
    upload_response, \* what upload_file returned
    exc,             \* the exception in flight or propagated
    exitCode         \* the script's exit status

vars == <<entry, file_name, environment, access_key, jsonErrorIsRequestException,
          fileExists, fsChanges, clock, pc, calls, connected, sig, signature_data,
          fileOpen, s3_response, success_response, upload_response, exc, exitCode>>

----------------------------------------------------------------------------
(* Bounds of the model *)

\* how many seconds the clock may advance between the two reads of _get_s3_signature
MaxClockAdvance == 1
\* how many times the file may appear or disappear during a run
MaxFsChanges == 1

----------------------------------------------------------------------------
(* Values *)

None == "<None>"
Unset == [unset |-> TRUE]
NoException == [type |-> "None", msg |-> <<>>]

\* timedelta(minutes=5)
ExpirationMinutes == 5
SecondsPerMinute == 60
SecondsPerHour == 60 * SecondsPerMinute
SecondsPerDay == 24 * SecondsPerHour

\* the clock values at which a run may start: noon, and the last second of a UTC day
ClockStarts == {12 * SecondsPerHour, SecondsPerDay - 1}

UUIDs == {"uuid-a", "uuid-b"}

MainFile == <<"2860433412016", "mp3">>
FileNames == {MainFile, <<"call", "2024", "wav">>, <<"recording">>}

RecognizedEnvironments == {"staging", "go", "fmo", "testing"}
Environments == RecognizedEnvironments \cup {"prod"}

AccessKeys == {None, "", "AKIAEXAMPLE"}

\* HTTP status codes the servers may answer with
Statuses == {200, 301, 403}

ConnectionError == [kind |-> "ConnectionError", status |-> 0, json |-> FALSE, etag |-> ""]

\* responses of the records service: a status, and whether the body is the JSON
\* document the client reads
JsonResponses ==
    {[kind |-> "response", status |-> s, json |-> j, etag |-> ""] :
        s \in Statuses, j \in BOOLEAN} \cup {ConnectionError}

\* responses of object storage: a status, and the ETag header (possibly absent)
StorageResponses ==
    {[kind |-> "response", status |-> s, json |-> FALSE, etag |-> e] :
        s \in Statuses, e \in {"", "etag-1"}} \cup {ConnectionError}

----------------------------------------------------------------------------
(* Pure helpers *)

\* datetime.strftime: the calendar fields of a time in seconds
Strftime(fmt, t) ==
    [fmt |-> fmt,
     Ymd |-> t \div SecondsPerDay,
     H   |-> (t % SecondsPerDay) \div SecondsPerHour,
     M   |-> (t % SecondsPerHour) \div SecondsPerMinute,
     S   |-> t % SecondsPerMinute]

\* strftime('%Y%m%d'): the date only
StrftimeDate(t) == [fmt |-> "%Y%m%d", Ymd |-> t \div SecondsPerDay]

\* response.raise_for_status(): raises HTTPError for 4xx and 5xx
RaiseForStatus(r) == r.status >= 400 /\ r.status < 600

\* `not access_key`
Falsy(key) == key = None \/ key = ""

\* _get_s3_bucket with a fall-through to the production bucket instead of the raise
GetS3Bucket_Default(env) ==
    CASE env = "staging" -> <<"staging-file-cdn", "us-east-1">>
      [] env = "fmo"     -> <<"fmo-file-cdn", "us-east-2">>
      [] env = "testing" -> <<"sfdc-data-cloud", "us-east-1">>
      [] OTHER           -> <<"kizen-file-cdn", "us-east-1">>

\* _get_s3_bucket; <<>> stands for `raise ValueError`
GetS3Bucket(env) ==
    CASE env = "staging" -> <<"staging-file-cdn", "us-east-1">>
      [] env = "go"      -> <<"kizen-file-cdn", "us-east-1">>
      [] env = "fmo"     -> <<"fmo-file-cdn", "us-east-2">>
      [] env = "testing" -> <<"sfdc-data-cloud", "us-east-1">>
      [] OTHER           -> <<>>

UnsupportedEnvironment(env) ==
    [type |-> "ValueError", msg |-> <<"Unsupported environment: ", env>>]

AccessKeyRequired ==
    [type |-> "ValueError", msg |-> <<"AWS access key is required for S3 operations">>]

FileNotFound(name) ==
    [type |-> "FileNotFoundError", msg |-> <<"File ", name, " not found">>]

\* file_name.split('.')[-1]
FileExt(name) == name[Len(name)]

\* f"{uuid.uuid4()}.{file_ext}"
FileKey(uuid, name) == <<uuid, ".", FileExt(name)>>

\* f"https://{bucket}.s3.{region}.amazonaws.com/"
S3Url(bucket, region) == <<"https://", bucket, ".s3.", region, ".amazonaws.com/">>

\* f"{aws_access_key}/{date_stamp}/{region}/s3/aws4_request"
XAmzCredential(aws_access_key, date_stamp, region) ==
    <<aws_access_key, "/", date_stamp, "/", region, "/s3/aws4_request">>

ContentType == "audio/mpeg"

\* signature_data of _get_s3_signature: the policy document sent to /s3/signature
PolicyDocument(locals, bucket, name) ==
    [expiration            |-> locals.expiration,
     acl                   |-> "private",
     bucket                |-> bucket,
     starts_with_key       |-> "",
     content_type          |-> ContentType,
     success_action_status |-> "200",
     key                   |-> locals.file_key,
     x_amz_meta_qqfilename |-> name,
     x_amz_algorithm       |-> "AWS4-HMAC-SHA256",
     x_amz_credential      |-> locals.x_amz_credential,
     x_amz_date            |-> locals.x_amz_date,
     content_length_range  |-> <<"0", "50000000">>]

\* what _get_s3_signature returns
SignatureResult(locals) ==
    [policy           |-> "policy-from-server",
     x_amz_credential |-> locals.x_amz_credential,
     x_amz_date       |-> locals.x_amz_date,
     signature        |-> "signature-from-server",
     file_key         |-> locals.file_key]

\* the form fields `data` of the storage upload
FormData(sd, name) ==
    [key                   |-> sd.file_key,
     content_type          |-> ContentType,
     success_action_status |-> "200",
     acl                   |-> "private",
     x_amz_meta_qqfilename |-> name,
     policy                |-> sd.policy,
     x_amz_algorithm       |-> "AWS4-HMAC-SHA256",
     x_amz_credential      |-> sd.x_amz_credential,
     x_amz_date            |-> sd.x_amz_date,
     x_amz_signature       |-> sd.signature]

\* success_payload of the registration request
SuccessPayload(sd, name, bucket, s3resp) ==
    [key       |-> sd.file_key,
     uuid      |-> sd.file_key[1],
     name      |-> name,
     bucket    |-> bucket,
     etag      |-> s3resp.etag,
     is_public |-> "False"]

\* the URL built from the key the registration response carries
ResultUrl_ServerKey(s3_url, sd) == s3_url \o <<"key-from-server">>

\* f"{s3_url}{signature_data['file_key']}"
ResultUrl(s3_url, sd) == s3_url \o sd.file_key

\* what upload_file returns
UploadResult(s3_url, sd) ==
    [id         |-> "id-from-server",
     url        |-> ResultUrl(s3_url, sd),
     size_bytes |-> "os.path.getsize(file_path)",
     key        |-> "key-from-server"]

\* update_payload of update_phone_call
UpdatePayload(url, key) ==
    [call_recording_link |-> url, call_recording |-> <<[id |-> key]>>]

\* upload_file without its os.path.exists check
UploadFilePrecheck_NoExistsCheck(exists, key, name) ==
    IF key = None \/ key = "" THEN AccessKeyRequired ELSE NoException

\* upload_file without its access-key check
UploadFilePrecheck_NoKeyCheck(exists, key, name) ==
    IF ~exists THEN FileNotFound(name) ELSE NoException

\* the first checks of upload_file: the exception raised, or NoException
UploadFilePrecheck(exists, key, name) ==
    IF ~exists THEN FileNotFound(name)
    ELSE IF Falsy(key) THEN AccessKeyRequired
    ELSE NoException

\* check_connection's result for a response: TRUE, FALSE, or the exception
\* that escapes it
CheckConnectionResult(r, jsonErrCaught) ==
    IF r.kind = "ConnectionError" THEN "False"
    ELSE IF r.status = 200
         THEN IF r.json THEN "True"
              ELSE IF jsonErrCaught THEN "False" ELSE "ValueError"
         ELSE "False"

Call(ep, method, url, req, resp) ==
    [ep |-> ep, method |-> method, url |-> url, req |-> req, resp |-> resp]

\* an exception leaves upload_file or update_phone_call
Raise(e) == exc' = e /\ pc' = "raised"

----------------------------------------------------------------------------
(* Initial state *)

Init ==
    /\ entry \in {"main", "call"}
    /\ IF entry = "main"
       THEN file_name = MainFile /\ environment = "fmo" /\ pc = "check_connection"
       ELSE file_name \in FileNames /\ environment \in Environments /\ pc = "upload_file"
    /\ access_key \in AccessKeys
    /\ jsonErrorIsRequestException \in BOOLEAN
    /\ fileExists \in BOOLEAN
    /\ fsChanges = 0
    /\ clock \in ClockStarts
    /\ calls = <<>>
    /\ connected = "unset"
    /\ sig = Unset
    /\ signature_data = Unset
    /\ fileOpen = FALSE
    /\ s3_response = Unset
    /\ success_response = Unset
    /\ upload_response = Unset
    /\ exc = NoException
    /\ exitCode = -1

----------------------------------------------------------------------------
(* The __main__ script and check_connection *)

\* kizen.check_connection(), called by the script before anything else
CheckConnection ==
    /\ pc = "check_connection"
    /\ \E r \in JsonResponses :
         /\ calls' = Append(calls, Call("probe", "POST", <<"base_url", "/client/v2">>,
                                        [page_size |-> 50, page |-> 1], r))
         /\ LET res == CheckConnectionResult(r, jsonErrorIsRequestException) IN
            IF res = "ValueError"
            THEN /\ exc' = [type |-> "ValueError", msg |-> <<"response.json()">>]
                 /\ pc' = "crashed"
                 /\ exitCode' = 1
                 /\ UNCHANGED connected
            ELSE /\ connected' = res
                 /\ pc' = "main_exists"
                 /\ UNCHANGED <<exc, exitCode>>
    /\ UNCHANGED <<entry, file_name, environment, access_key, jsonErrorIsRequestException,
                   fileExists, fsChanges, clock, sig, signature_data, fileOpen,
                   s3_response, success_response, upload_response>>

\* `if os.path.exists(file_recording): ... else: print(...)`
MainExists ==
    /\ pc = "main_exists"
    /\ IF fileExists
       THEN pc' = "upload_file" /\ UNCHANGED exitCode
       ELSE pc' = "exit" /\ exitCode' = 0
    /\ UNCHANGED <<entry, file_name, environment, access_key, jsonErrorIsRequestException,
                   fileExists, fsChanges, clock, calls, connected, sig, signature_data,
                   fileOpen, s3_response, success_response, upload_response, exc>>

\* `except Exception as e: ... exit(1)` around upload_file and update_phone_call
MainExcept ==
    /\ entry = "main"
    /\ pc = "raised"
    /\ pc' = "exit"
    /\ exitCode' = 1
    /\ UNCHANGED <<entry, file_name, environment, access_key, jsonErrorIsRequestException,
                   fileExists, fsChanges, clock, calls, connected, sig, signature_data,
                   fileOpen, s3_response, success_response, upload_response, exc>>

----------------------------------------------------------------------------
(* Exceptions of the HTTP steps *)

HTTPError(r) == [type |-> "HTTPError", msg |-> <<r.status>>]
TransportError == [type |-> "ConnectionError", msg |-> <<>>]
BodyError == [type |-> "KeyError/JSONDecodeError", msg |-> <<>>]
IOError(name) == [type |-> "FileNotFoundError", msg |-> <<"open", name>>]

\* requests.post(...); response.raise_for_status(); response.json()[...] of
\* _get_s3_signature, of the registration step and of update_phone_call:
\* the exception raised for response r, or NoException
JsonStepError(r) ==
    IF r.kind = "ConnectionError" THEN TransportError
    ELSE IF RaiseForStatus(r) THEN HTTPError(r)
    ELSE IF ~r.json THEN BodyError
    ELSE NoException

SignatureError(r) == JsonStepError(r)

\* requests.post(s3_url, ...); s3_response.raise_for_status()
StorageError(r) ==
    IF r.kind = "ConnectionError" THEN TransportError
    ELSE IF RaiseForStatus(r) THEN HTTPError(r)
    ELSE NoException

\* the registration step with its failure logged and not re-raised
RegistrationError_Swallowed(r) == NoException

RegistrationError(r) == JsonStepError(r)

UpdateError(r) == JsonStepError(r)

----------------------------------------------------------------------------
(* upload_file and _get_s3_signature *)

\* upload_file: the existence and access-key checks
UploadFileCheck ==
    /\ pc = "upload_file"
    /\ LET e == UploadFilePrecheck(fileExists, access_key, file_name) IN
       IF e # NoException THEN Raise(e)
       ELSE pc' = "get_s3_signature" /\ UNCHANGED exc
    /\ UNCHANGED <<entry, file_name, environment, access_key, jsonErrorIsRequestException,
                   fileExists, fsChanges, clock, calls, connected, sig, signature_data,
                   fileOpen, s3_response, success_response, upload_response, exitCode>>

\* _get_s3_signature: the first clock read, expiration, date_stamp, file_key
SigLocalsFirst(now, uuid, name) ==
    [expiration |-> Strftime("%Y-%m-%dT%H:%M:%SZ", now + ExpirationMinutes * SecondsPerMinute),
     date_stamp |-> StrftimeDate(now),
     file_key   |-> FileKey(uuid, name)]

GetS3SignatureStart ==
    /\ pc = "get_s3_signature"
    /\ \E uuid \in UUIDs : sig' = SigLocalsFirst(clock, uuid, file_name)
    /\ pc' = "get_s3_signature_now"
    /\ UNCHANGED <<entry, file_name, environment, access_key, jsonErrorIsRequestException,
                   fileExists, fsChanges, clock, calls, connected, signature_data,
                   fileOpen, s3_response, success_response, upload_response, exc, exitCode>>

\* _get_s3_signature: the second clock read, the bucket, the credential scope and
\* the x-amz-date
SigLocalsSecond(locals, now, key, region) ==
    [expiration       |-> locals.expiration,
     date_stamp       |-> locals.date_stamp,
     file_key         |-> locals.file_key,
     x_amz_credential |-> XAmzCredential(key, locals.date_stamp, region),
     x_amz_date       |-> Strftime("%Y%m%dT%H%M%SZ", now)]

GetS3SignatureBuild ==
    /\ pc = "get_s3_signature_now"
    /\ \E d \in 0..MaxClockAdvance :
         /\ clock' = clock + d
         /\ LET b == GetS3Bucket(environment) IN
            IF b = <<>>
            THEN Raise(UnsupportedEnvironment(environment)) /\ UNCHANGED sig
            ELSE /\ sig' = SigLocalsSecond(sig, clock', access_key, b[2])
                 /\ pc' = "signature_post"
                 /\ UNCHANGED exc
    /\ UNCHANGED <<entry, file_name, environment, access_key, jsonErrorIsRequestException,
                   fileExists, fsChanges, calls, connected, signature_data,
                   fileOpen, s3_response, success_response, upload_response, exitCode>>

\* _get_s3_signature: POST /s3/signature, and upload_file's handlers around it
GetS3SignaturePost ==
    /\ pc = "signature_post"
    /\ \E r \in JsonResponses :
         /\ calls' = Append(calls, Call("signature", "POST", <<"base_url", "/s3/signature">>,
                              PolicyDocument(sig, GetS3Bucket(environment)[1], file_name), r))
         /\ LET e == SignatureError(r) IN
            IF e # NoException THEN Raise(e) /\ UNCHANGED signature_data
            ELSE /\ signature_data' = SignatureResult(sig)
                 /\ pc' = "open_file"
                 /\ UNCHANGED exc
    /\ UNCHANGED <<entry, file_name, environment, access_key, jsonErrorIsRequestException,
                   fileExists, fsChanges, clock, connected, sig,
                   fileOpen, s3_response, success_response, upload_response, exitCode>>

\* upload_file, step 2: `with open(file_path, 'rb') as f`
UploadFileOpen ==
    /\ pc = "open_file"
    /\ IF fileExists
       THEN fileOpen' = TRUE /\ pc' = "storage_post" /\ UNCHANGED exc
       ELSE Raise(IOError(file_name)) /\ UNCHANGED fileOpen
    /\ UNCHANGED <<entry, file_name, environment, access_key, jsonErrorIsRequestException,
                   fileExists, fsChanges, clock, calls, connected, sig, signature_data,
                   s3_response, success_response, upload_response, exitCode>>

\* upload_file, step 2: the multipart POST to storage, inside the with block
UploadFileStoragePost ==
    /\ pc = "storage_post"
    /\ \E r \in StorageResponses :
         /\ calls' = Append(calls, Call("storage", "POST",
                              S3Url(GetS3Bucket(environment)[1], GetS3Bucket(environment)[2]),
                              FormData(signature_data, file_name), r))
         /\ exc' = StorageError(r)
         /\ s3_response' = IF StorageError(r) = NoException THEN r ELSE s3_response
    /\ pc' = "with_exit"
    /\ UNCHANGED <<entry, file_name, environment, access_key, jsonErrorIsRequestException,
                   fileExists, fsChanges, clock, connected, sig, signature_data,
                   fileOpen, success_response, upload_response, exitCode>>

\* open() without `with`, and f.close() only on the normal path
UploadFileWithExit_LeakOnError ==
    /\ pc = "with_exit"
    /\ fileOpen' = (exc # NoException)
    /\ pc' = IF exc # NoException THEN "raised" ELSE "register"
    /\ UNCHANGED <<entry, file_name, environment, access_key, jsonErrorIsRequestException,
                   fileExists, fsChanges, clock, calls, connected, sig, signature_data,
                   s3_response, success_response, upload_response, exc, exitCode>>

\* upload_file, step 2: the with block is left, normally or by an exception
UploadFileWithExit ==
    /\ pc = "with_exit"
    /\ fileOpen' = FALSE
    /\ pc' = IF exc # NoException THEN "raised" ELSE "register"
    /\ UNCHANGED <<entry, file_name, environment, access_key, jsonErrorIsRequestException,
                   fileExists, fsChanges, clock, calls, connected, sig, signature_data,
                   s3_response, success_response, upload_response, exc, exitCode>>

\* upload_file, step 3: POST /s3/success
UploadFileRegister ==
    /\ pc = "register"
    /\ \E r \in JsonResponses :
         /\ calls' = Append(calls, Call("success", "POST", <<"base_url", "/s3/success">>,
                              SuccessPayload(signature_data, file_name,
                                             GetS3Bucket(environment)[1], s3_response), r))
         /\ LET e == RegistrationError(r) IN
            IF e # NoException THEN Raise(e) /\ UNCHANGED success_response
            ELSE /\ success_response' = r
                 /\ pc' = "upload_return"
                 /\ UNCHANGED exc
    /\ UNCHANGED <<entry, file_name, environment, access_key, jsonErrorIsRequestException,
                   fileExists, fsChanges, clock, connected, sig, signature_data,
                   fileOpen, s3_response, upload_response, exitCode>>

\* upload_file: the return statement, with os.path.getsize(file_path)
UploadFileReturn ==
    /\ pc = "upload_return"
    /\ IF fileExists
       THEN /\ upload_response' =
                 UploadResult(S3Url(GetS3Bucket(environment)[1], GetS3Bucket(environment)[2]),
                              signature_data)
            /\ pc' = IF entry = "main" THEN "update_phone_call" ELSE "returned"
            /\ UNCHANGED exc
       ELSE Raise(IOError(file_name)) /\ UNCHANGED upload_response
    /\ UNCHANGED <<entry, file_name, environment, access_key, jsonErrorIsRequestException,
                   fileExists, fsChanges, clock, calls, connected, sig, signature_data,
                   fileOpen, s3_response, success_response, exitCode>>

\* update_phone_call, called by the script with the upload's url and id
UpdatePhoneCall ==
    /\ pc = "update_phone_call"
    /\ \E r \in JsonResponses :
         /\ calls' = Append(calls, Call("update", "PUT",
                              <<"base_url", "/records/",
                                "02a2c75d-6393-4ac7-835c-bff4a3d04b13", "/",
                                "e65e2a12-d8eb-4fde-a126-7c8db5ab79fa">>,
                              UpdatePayload(upload_response.url, upload_response.id), r))
         /\ LET e == UpdateError(r) IN
            IF e # NoException THEN Raise(e) /\ UNCHANGED exitCode
            ELSE pc' = "exit" /\ exitCode' = 0 /\ UNCHANGED exc
    /\ UNCHANGED <<entry, file_name, environment, access_key, jsonErrorIsRequestException,
                   fileExists, fsChanges, clock, connected, sig, signature_data,
                   fileOpen, s3_response, success_response, upload_response>>

----------------------------------------------------------------------------
(* The environment *)

Terminated == pc \in {"exit", "crashed", "returned"} \/ (pc = "raised" /\ entry = "call")

\* the file is removed or created while the program runs
FileSystemChange ==
    /\ ~Terminated
    /\ fsChanges < MaxFsChanges
    /\ fsChanges' = fsChanges + 1
    /\ fileExists' = ~fileExists
    /\ UNCHANGED <<entry, file_name, environment, access_key, jsonErrorIsRequestException,
                   clock, pc, calls, connected, sig, signature_data, fileOpen,
                   s3_response, success_response, upload_response, exc, exitCode>>

Next ==
    \/ CheckConnection
    \/ MainExists
    \/ MainExcept
    \/ UploadFileCheck
    \/ GetS3SignatureStart
    \/ GetS3SignatureBuild
    \/ GetS3SignaturePost
    \/ UploadFileOpen
    \/ UploadFileStoragePost
    \/ UploadFileWithExit
    \/ UploadFileRegister
    \/ UploadFileReturn
    \/ UpdatePhoneCall
    \/ FileSystemChange

Spec == Init /\ [][Next]_vars

----------------------------------------------------------------------------
(* Vocabulary of the properties *)

Idx == 1..Len(calls)
Issued(ep) == \E i \in Idx : calls[i].ep = ep
CountOf(ep) == Cardinality({i \in Idx : calls[i].ep = ep})
WorkflowSteps == {"signature", "storage", "success", "update"}
Rank(ep) ==
    CASE ep = "probe" -> 0 [] ep = "signature" -> 1 [] ep = "storage" -> 2
      [] ep = "success" -> 3 [] ep = "update" -> 4
\* the request was answered with a success (2xx) status
ReturnedSuccess(r) == r.kind = "response" /\ r.status >= 200 /\ r.status < 300
\* the request failed: no response, an error (4xx, 5xx) status, or a body
\* without the document the endpoint answers with
RequestFailed(r) == r.kind = "ConnectionError" \/ r.status >= 400 \/ ~r.json
\* a formatted timestamp read back as seconds
ToSeconds(ts) ==
    ts.Ymd * SecondsPerDay + ts.H * SecondsPerHour + ts.M * SecondsPerMinute + ts.S

----------------------------------------------------------------------------
(* C1 *)

\* C1: the signature request, the storage upload, the registration and the
\* record update are each issued at most once and only in that order, and each
\* is issued only if every earlier one returned success; in particular, after a
\* storage upload that returned a non-success status neither the registration
\* nor the record update is issued.
C1_StrictlySequential ==
    /\ \A ep \in WorkflowSteps : CountOf(ep) <= 1
    /\ \A i, j \in Idx : i < j => Rank(calls[i].ep) < Rank(calls[j].ep)
    /\ \A j \in Idx : \A ep \in WorkflowSteps :
         Rank(ep) < Rank(calls[j].ep) =>
            \E i \in 1..(j - 1) : calls[i].ep = ep /\ ReturnedSuccess(calls[i].resp)
    /\ (\E i \in Idx : calls[i].ep = "storage" /\ ~ReturnedSuccess(calls[i].resp))
          => ~Issued("success") /\ ~Issued("update")

----------------------------------------------------------------------------
(* C2 *)

\* C2 as stated: if the source file does not exist when the workflow is
\* started, the workflow fails with FileNotFound and issues zero network calls,
\* the probe included.
C2_NoCallsAtAll ==
    (fsChanges = 0 /\ ~fileExists) =>
        /\ calls = <<>>
        /\ (Terminated => exc.type = "FileNotFoundError")

\* C2, amended: while the source file is absent from the start, no signature,
\* storage, registration or record-update request is issued.  upload_file
\* called directly raises FileNotFoundError with zero network calls; the
\* script has issued the probe before its existence check, never calls
\* upload_file, and at that check reports the missing file and ends normally.
C2_MissingFile ==
    (fsChanges = 0 /\ ~fileExists) =>
        /\ \A i \in Idx : calls[i].ep = "probe"
        /\ entry = "call" =>
              /\ calls = <<>>
              /\ pc \in {"upload_file", "raised"}
              /\ (pc = "raised" => exc = FileNotFound(file_name))
        /\ entry = "main" =>
              /\ pc \in {"check_connection", "main_exists", "crashed", "exit"}
              /\ (pc = "exit" => exitCode = 0 /\ exc = NoException)
              /\ (pc # "check_connection" => CountOf("probe") = 1)

C2_Witness ==
    /\ fsChanges = 0 /\ ~fileExists
    /\ entry = "main" /\ pc = "exit" /\ exitCode = 0
    /\ Len(calls) = 1 /\ calls[1].ep = "probe"

----------------------------------------------------------------------------
(* C3 *)

C3_NoUploadRequests ==
    Falsy(access_key) => \A i \in Idx : calls[i].ep \notin WorkflowSteps

C3_RaisesAtCheck ==
    (pc = "upload_file" /\ fileExists /\ Falsy(access_key) /\ pc' # pc) =>
        (pc' = "raised" /\ exc' = AccessKeyRequired /\ calls' = calls)

\* C3: with no access-key id (None or empty) and an existing file, upload_file
\* raises the access-key ValueError at its first checks, and no signature,
\* storage or registration request is ever sent.
C3_CredentialMissing == []C3_NoUploadRequests /\ [][C3_RaisesAtCheck]_vars

C3_Witness ==
    /\ pc = "raised" /\ exc = AccessKeyRequired
    /\ Falsy(access_key) /\ fileExists /\ fsChanges = 0

----------------------------------------------------------------------------
(* C4 *)

----------------------------------------------------------------------------
(* C5 *)

C5_NoNetworkCall ==
    environment \notin RecognizedEnvironments =>
        /\ calls = <<>>
        /\ pc \in {"upload_file", "get_s3_signature", "get_s3_signature_now", "raised"}

C5_RaisesBeforePost ==
    /\ (pc = "upload_file" /\ fileExists /\ ~Falsy(access_key) /\ pc' # pc)
          => pc' = "get_s3_signature"
    /\ (pc = "get_s3_signature" /\ pc' # pc) => pc' = "get_s3_signature_now"
    /\ (pc = "get_s3_signature_now" /\ environment \notin RecognizedEnvironments /\ pc' # pc)
          => (pc' = "raised" /\ exc' = UnsupportedEnvironment(environment) /\ calls' = calls)

\* C5: upload_file called with an existing file, an access key and an
\* environment tag outside {staging, go, fmo, testing} raises the
\* unsupported-environment ValueError, and no network call is ever made.
C5_InvalidEnvironment == []C5_NoNetworkCall /\ [][C5_RaisesBeforePost]_vars

C5_Witness ==
    /\ pc = "raised" /\ exc = UnsupportedEnvironment("prod")
    /\ environment = "prod" /\ ~Falsy(access_key) /\ fsChanges = 0 /\ fileExists

----------------------------------------------------------------------------
(* C6 *)

\* C6: check_connection returns a boolean for every outcome of its request,
\* true exactly on status 200, and never raises; the script then goes on to
\* its upload steps.
C6_ProbeAdvisory ==
    (entry = "main" /\ pc # "check_connection") =>
        /\ pc # "crashed"
        /\ connected = IF ReturnedSuccess(calls[1].resp) /\ calls[1].resp.status = 200
                       THEN "True" ELSE "False"

----------------------------------------------------------------------------
(* C7 *)

\* C7: in every policy document sent to /s3/signature the expiration is exactly
\* 5 minutes after the x-amz-date of the same policy.
C7_ExpirationFiveMinutes ==
    \A i \in Idx :
        calls[i].ep = "signature" =>
            ToSeconds(calls[i].req.expiration) =
                ToSeconds(calls[i].req.x_amz_date) + ExpirationMinutes * SecondsPerMinute

----------------------------------------------------------------------------
(* C8 *)

\* C8: the URL upload_file returns is https://<bucket>.s3.<region>.amazonaws.com/<key>
\* with (bucket, region) the pair of the environment tag and <key> the one
\* generated key that the policy, the storage form and the registration
\* payload carry; the registration payload names the same bucket.
C8_ReturnedUrl ==
    upload_response # Unset =>
        /\ environment \in RecognizedEnvironments
        /\ \E i, j, k \in Idx :
             /\ calls[i].ep = "signature" /\ calls[j].ep = "storage" /\ calls[k].ep = "success"
             /\ \E uuid \in UUIDs : calls[i].req.key = <<uuid, ".", file_name[Len(file_name)]>>
             /\ calls[j].req.key = calls[i].req.key
             /\ calls[k].req.key = calls[i].req.key
             /\ calls[k].req.bucket = GetS3Bucket(environment)[1]
             /\ calls[i].req.bucket = GetS3Bucket(environment)[1]
             /\ upload_response.url =
                   <<"https://", GetS3Bucket(environment)[1], ".s3.",
                     GetS3Bucket(environment)[2], ".amazonaws.com/">> \o calls[i].req.key

C8_Witness ==
    /\ pc = "returned" /\ upload_response # Unset
    /\ environment = "fmo" /\ file_name = <<"call", "2024", "wav">>

----------------------------------------------------------------------------
(* C9 *)

C9_ClosedAfterUpload == fileOpen => pc \in {"storage_post", "with_exit"}

C9_NoRequestWhileOpen ==
    (fileOpen /\ calls' # calls) => calls'[Len(calls')].ep = "storage"

\* C9: the file handle is open only between the open and the end of the with
\* block, so it is closed in every state after the upload step, however the
\* storage request ended; and no registration or record-update request is
\* issued while it is open.
C9_HandleReleased == []C9_ClosedAfterUpload /\ [][C9_NoRequestWhileOpen]_vars

C9_Witness ==
    /\ pc = "raised" /\ ~fileOpen
    /\ Len(calls) >= 2
    /\ calls[Len(calls)].ep = "storage" /\ calls[Len(calls)].resp.kind = "ConnectionError"

----------------------------------------------------------------------------
(* C10 *)

\* C10: in every signature request the date inside x-amz-credential equals the
\* date part of x-amz-date.
C10_CredentialDate ==
    \A i \in Idx :
        calls[i].ep = "signature" =>
            calls[i].req.x_amz_credential[3].Ymd = calls[i].req.x_amz_date.Ymd

====
